---- MODULE Spec2Model ----
(***************************************************************************)
(* Model of src/src/app.ts (class App): the window registry with its       *)
(* delayed close, the configuration load, and the RunJs bridge.            *)
(*                                                                         *)
(* Every method of App is a pure operator from an application state record *)
(* to the state after the call, so that a method calling another method    *)
(* (toggleWindow -> closeWindow, _load -> addWindow) is the composition of  *)
(* the operators.  An action applies one handler to the current state.     *)
(***************************************************************************)
EXTENDS Naturals, Integers, Sequences, FiniteSets, Bags, TLC

VARIABLES
    windows,     \* App._windows: the Map, as a set of [name, win] entries
    closeDelay,  \* App._closeDelay: not defined until _load assigns it
    visible,     \* Gtk.Window.visible of every window object
    destroyed,   \* window objects on which destroy() has run
    conns,       \* number of notify::visible handlers addWindow connected
    timers,      \* bag of pending timeout(delay, () => w.hide()) sources
    quitCalled,  \* Gtk.Application.quit() has been called
    exited,      \* the main loop has returned after quit()
    loaded,      \* _load has run
    effects,     \* what the last handler did and published, in order
    ret,         \* what the last handler returned (or "throw")
    lastOp,      \* history: the last handler and its argument
    pre,         \* history: facts of the state the last handler started in
    calls        \* the RunJs calls: arguments, progress, what each has sent

wvars == <<windows, closeDelay, visible, destroyed, conns, timers,
           quitCalled, exited, loaded, effects, ret, lastOp, pre>>

vars == <<windows, closeDelay, visible, destroyed, conns, timers,
          quitCalled, exited, loaded, effects, ret, lastOp, pre, calls>>

-----------------------------------------------------------------------------
(* Bounds *)

\* handlers addWindow may connect on one window object
MaxConns == 2
\* close timers pending at once
MaxTimers == 2
\* RunJs calls made
MaxCalls == 2
\* print calls one script makes
MaxPrints == 1

-----------------------------------------------------------------------------
(* The window objects the configuration and the scripts construct *)

Handles == {"W1", "W2", "W3", "W4"}

\* an argument of addWindow that is not a Gtk.Window
NotAWindow == "notAWindow"

\* w.name: W1 and W2 carry the same name, W4 has none
NameOf(w) ==
    CASE w = "W1" -> "bar"
      [] w = "W2" -> "bar"
      [] w = "W3" -> "gtk-layer-shell"
      [] OTHER    -> ""

Names == {"bar", "gtk-layer-shell"}

Undefined == "undefined"

\* config.closeWindowDelay tables (0: the name has no entry); ticks
DelayBar == 2
\* the field before its first assignment, and after
NoDelayTable == [defined |-> FALSE, of |-> [n \in Names |-> 0]]
DelayTable(t) == [defined |-> TRUE, of |-> t]

DelayTables ==
    { [n \in Names |-> 0],
      [n \in Names |-> IF n = "bar" THEN DelayBar ELSE 0] }

-----------------------------------------------------------------------------
(* JavaScript Map *)

MapHas(m, k) == \E e \in m : e.name = k

MapGet(m, k) ==
    IF MapHas(m, k) THEN (CHOOSE e \in m : e.name = k).win ELSE Undefined

MapSet(m, k, v) == {e \in m : e.name # k} \cup {[name |-> k, win |-> v]}

MapDelete(m, k) == {e \in m : e.name # k}

-----------------------------------------------------------------------------
(* The application state as a record, and effects *)

St ==
    [windows |-> windows, closeDelay |-> closeDelay, visible |-> visible,
     destroyed |-> destroyed, conns |-> conns, timers |-> timers,
     quitCalled |-> quitCalled, effects |-> <<>>, ret |-> Undefined]

Do(s, e) == [s EXCEPT !.effects = Append(@, e)]

Toggled(n, v) == [e |-> "window-toggled", name |-> n, visible |-> v]

LogError(what) == [e |-> "console.error", what |-> what]

\* this.emit('window-toggled', name, visible)
emit(s, n, v) == Do(s, Toggled(n, v))

\* notify::visible of w: every handler connected by addWindow runs
\* this.emit('window-toggled', w.name, w.visible)
notifyVisible(s, w) ==
    [s EXCEPT !.effects =
        @ \o [i \in 1..s.conns[w] |-> Toggled(NameOf(w), s.visible[w])]]

\* Gtk.Widget.show
show(s, w) ==
    LET c == Do(s, [e |-> "show", win |-> w]) IN
    IF s.destroyed[w] \/ s.visible[w] THEN c
    ELSE notifyVisible([c EXCEPT !.visible[w] = TRUE], w)

\* Gtk.Widget.hide
hide(s, w) ==
    LET c == Do(s, [e |-> "hide", win |-> w]) IN
    IF s.destroyed[w] \/ ~s.visible[w] THEN c
    ELSE notifyVisible([c EXCEPT !.visible[w] = FALSE], w)

\* Gtk.Widget.destroy: a visible toplevel is hidden, then its handlers go
destroy(s, w) ==
    LET h == IF s.visible[w] THEN hide(s, w) ELSE s IN
    [Do(h, [e |-> "destroy", win |-> w]) EXCEPT
        !.destroyed[w] = TRUE, !.conns[w] = 0]

\* Gtk.Application.quit
quit(s) == [Do(s, [e |-> "quit"]) EXCEPT !.quitCalled = TRUE]

\* timeout(delay, () => w.hide()): a one-shot timer source
Timer(w, d) == [win |-> w, left |-> d]

timeout(s, d, w) == [s EXCEPT !.timers = @ (+) SetToBag({Timer(w, d)})]

-----------------------------------------------------------------------------
(* App methods *)

getWindow(s, name) ==
    IF MapHas(s.windows, name) THEN s
    ELSE Do(s, LogError("There is no window named"))

openWindow(s, name) ==
    LET g == getWindow(s, name) IN
    IF MapHas(s.windows, name)
    THEN show(g, MapGet(s.windows, name))
    ELSE g

\* closeWindow with the hide not kept for the timer: the branch of the
\* delay falls through to w.hide()
closeWindow_HidesAtOnce(s, name) ==
    LET g == getWindow(s, name)
        w == MapGet(s.windows, name)
    IN
    IF ~MapHas(s.windows, name) THEN g
    ELSE IF ~s.visible[w] THEN g
    ELSE IF ~s.closeDelay.defined THEN [g EXCEPT !.ret = "throw"]
    ELSE IF s.closeDelay.of[name] # 0 /\ s.visible[w]
         THEN hide(emit(timeout(g, s.closeDelay.of[name], w), name, FALSE), w)
         ELSE hide(g, w)

closeWindow(s, name) ==
    LET g == getWindow(s, name)
        w == MapGet(s.windows, name)
    IN
    IF ~MapHas(s.windows, name) THEN g
    ELSE IF ~s.visible[w] THEN g
    ELSE IF ~s.closeDelay.defined THEN [g EXCEPT !.ret = "throw"]
    ELSE IF s.closeDelay.of[name] # 0 /\ s.visible[w]
         THEN emit(timeout(g, s.closeDelay.of[name], w), name, FALSE)
         ELSE hide(g, w)

toggleWindow(s, name) ==
    LET g == getWindow(s, name)
        w == MapGet(s.windows, name)
    IN
    IF MapHas(s.windows, name)
    THEN (IF s.visible[w] THEN closeWindow(g, name) ELSE openWindow(g, name))
    ELSE [g EXCEPT !.ret = "There is no window named"]

\* `${b}` of a boolean
BoolStr(b) == IF b THEN "true" ELSE "false"

\* the method of the bus interface: this.toggleWindow(name), then
\* `${this.getWindow(name)?.visible}`; an exception of toggleWindow leaves
\* the method before the return
ToggleWindow(s, name) ==
    LET t == toggleWindow(s, name) IN
    IF t.ret = "throw" THEN t
    ELSE [getWindow(t, name) EXCEPT
             !.ret = IF MapHas(t.windows, name)
                     THEN BoolStr(t.visible[MapGet(t.windows, name)])
                     ELSE Undefined]

DefaultName == "gtk-layer-shell"

\* the argument of removeWindow is a name or a window object
RemoveName(a) ==
    IF a \in Handles
    THEN (IF NameOf(a) # "" THEN NameOf(a) ELSE DefaultName)
    ELSE a

\* removeWindow without this._windows.delete(name)
removeWindow_KeepsEntry(s, a) ==
    LET name == RemoveName(a) IN
    IF ~MapHas(s.windows, name)
    THEN Do(s, LogError("There is no window named"))
    ELSE destroy(s, MapGet(s.windows, name))

removeWindow(s, a) ==
    LET name == RemoveName(a) IN
    IF ~MapHas(s.windows, name)
    THEN Do(s, LogError("There is no window named"))
    ELSE [destroy(s, MapGet(s.windows, name)) EXCEPT
             !.windows = MapDelete(@, name)]

\* addWindow without the test of this._windows.has(w.name)
addWindow_Replaces(s, w) ==
    IF w \notin Handles THEN Do(s, LogError("not an instanceof Gtk.Window"))
    ELSE IF NameOf(w) = "" THEN Do(s, LogError("has no name"))
    ELSE [s EXCEPT !.conns[w] = @ + 1,
                   !.windows = MapSet(@, NameOf(w), w)]

\* addWindow that logs the duplicate and returns, without this.quit()
addWindow_OnlyLogs(s, w) ==
    IF w \notin Handles THEN Do(s, LogError("not an instanceof Gtk.Window"))
    ELSE IF NameOf(w) = "" THEN Do(s, LogError("has no name"))
    ELSE LET c == [s EXCEPT !.conns[w] = @ + 1] IN
         IF MapHas(c.windows, NameOf(w))
         THEN Do(c, LogError("There is already a window named"))
         ELSE [c EXCEPT !.windows = MapSet(@, NameOf(w), w)]

addWindow(s, w) ==
    IF w \notin Handles THEN Do(s, LogError("not an instanceof Gtk.Window"))
    ELSE IF NameOf(w) = "" THEN Do(s, LogError("has no name"))
    ELSE LET c == [s EXCEPT !.conns[w] = @ + 1] IN
         IF MapHas(c.windows, NameOf(w))
         THEN quit(Do(c, LogError("There is already a window named")))
         ELSE [c EXCEPT !.windows = MapSet(@, NameOf(w), w)]

-----------------------------------------------------------------------------
(* Actions: one handler run by the main loop *)

\* the name a handler's argument addresses
ArgName(arg) ==
    IF arg \in Names THEN arg
    ELSE IF arg \in Handles THEN RemoveName(arg)
    ELSE DefaultName

\* before the handler: the registry's size, whether the addressed name was
\* registered, and whether its window was visible
Pre(arg) ==
    [size |-> Cardinality(windows),
     had |-> MapHas(windows, ArgName(arg)),
     vis |-> MapHas(windows, ArgName(arg))
             /\ visible[MapGet(windows, ArgName(arg))]]

Apply(s, op, arg) ==
    /\ windows' = s.windows
    /\ closeDelay' = s.closeDelay
    /\ visible' = s.visible
    /\ destroyed' = s.destroyed
    /\ conns' = s.conns
    /\ timers' = s.timers
    /\ quitCalled' = s.quitCalled
    /\ effects' = s.effects
    /\ ret' = s.ret
    /\ lastOp' = [op |-> op, arg |-> arg]
    /\ pre' = Pre(arg)
    /\ UNCHANGED calls

OpenWindowCall(n) ==
    /\ ~exited
    /\ Apply(openWindow(St, n), "openWindow", n)
    /\ UNCHANGED <<exited, loaded>>

CloseWindowCall(n) ==
    /\ ~exited
    /\ BagCardinality(closeWindow(St, n).timers) <= MaxTimers
    /\ Apply(closeWindow(St, n), "closeWindow", n)
    /\ UNCHANGED <<exited, loaded>>

ToggleWindowCall(n) ==
    /\ ~exited
    /\ BagCardinality(toggleWindow(St, n).timers) <= MaxTimers
    /\ Apply(toggleWindow(St, n), "toggleWindow", n)
    /\ UNCHANGED <<exited, loaded>>

\* ToggleWindow called over the bus
ToggleWindowMethod(n) ==
    /\ ~exited
    /\ BagCardinality(ToggleWindow(St, n).timers) <= MaxTimers
    /\ Apply(ToggleWindow(St, n), "ToggleWindow", n)
    /\ UNCHANGED <<exited, loaded>>

\* Quit called over the bus
QuitMethod ==
    /\ ~exited
    /\ Apply(quit(St), "Quit", Undefined)
    /\ UNCHANGED <<exited, loaded>>

AddWindowCall(w) ==
    /\ ~exited
    /\ w \in Handles => ~destroyed[w] /\ conns[w] < MaxConns
    /\ Apply(addWindow(St, w), "addWindow", w)
    /\ UNCHANGED <<exited, loaded>>

RemoveWindowCall(a) ==
    /\ ~exited
    /\ a \in Handles => ~destroyed[a]
    /\ Apply(removeWindow(St, a), "removeWindow", a)
    /\ UNCHANGED <<exited, loaded>>

\* a caller (a script, a configuration callback) toggles a window twice in
\* one handler
ToggleTwiceCall(n) ==
    /\ ~exited
    /\ BagCardinality(toggleWindow(toggleWindow(St, n), n).timers)
           <= MaxTimers
    /\ Apply(toggleWindow(toggleWindow(St, n), n), "toggleTwice", n)
    /\ UNCHANGED <<exited, loaded>>

\* a caller adds a window and removes it again in one handler
AddRemoveCall(w) ==
    /\ ~exited
    /\ ~destroyed[w] /\ conns[w] < MaxConns
    /\ Apply(removeWindow(addWindow(St, w), w), "addRemove", w)
    /\ UNCHANGED <<exited, loaded>>

\* the descriptors the entry module may export, and the ways the import fails
ConfigWindows ==
    { <<>>, <<"W1">>, <<"W1", "W3">>, <<"W1", "W2", "W3">>, <<"W4", "W1">> }

Configs ==
    [kind : {"notFound", "importError", "noDefault"},
     delay : {[n \in Names |-> 0]}, windowList : {<<>>},
     styleThrows : {FALSE}, hookThrows : {FALSE}]
    \cup
    [kind : {"ok"}, delay : DelayTables, windowList : ConfigWindows,
     styleThrows : BOOLEAN, hookThrows : BOOLEAN]

\* config.windows?.forEach(this.addWindow.bind(this))
RECURSIVE forEachAddWindow(_, _)
forEachAddWindow(s, ws) ==
    IF ws = <<>> THEN s
    ELSE forEachAddWindow(addWindow(s, Head(ws)), Tail(ws))

\* _load that emits config-parsed before it adds the windows
load_ParsedFirst(s, cfg) ==
    IF cfg.kind = "notFound"
    THEN quit(Do(Do(s, [e |-> "logError"]), [e |-> "print"]))
    ELSE IF cfg.kind = "importError" THEN Do(s, [e |-> "logError"])
    ELSE IF cfg.kind = "noDefault"
    THEN Do(Do(s, LogError("Missing default export")), [e |-> "config-parsed"])
    ELSE LET d == [s EXCEPT !.closeDelay = DelayTable(cfg.delay)] IN
         IF cfg.styleThrows THEN Do(d, [e |-> "logError"])
         ELSE LET a == forEachAddWindow(Do(d, [e |-> "config-parsed"]),
                                        cfg.windowList)
              IN IF cfg.hookThrows THEN Do(a, [e |-> "logError"]) ELSE a

load(s, cfg) ==
    IF cfg.kind = "notFound"
    THEN quit(Do(Do(s, [e |-> "logError"]), [e |-> "print"]))
    ELSE IF cfg.kind = "importError" THEN Do(s, [e |-> "logError"])
    ELSE IF cfg.kind = "noDefault"
    THEN Do(Do(s, LogError("Missing default export")), [e |-> "config-parsed"])
    ELSE LET d == [s EXCEPT !.closeDelay = DelayTable(cfg.delay)] IN
         IF cfg.styleThrows THEN Do(d, [e |-> "logError"])
         ELSE LET a == forEachAddWindow(d, cfg.windowList) IN
              IF cfg.hookThrows THEN Do(a, [e |-> "logError"])
              ELSE Do(a, [e |-> "config-parsed"])

Load(cfg) ==
    /\ ~exited
    /\ ~loaded
    /\ \A i \in 1..Len(cfg.windowList) : ~destroyed[cfg.windowList[i]]
    /\ \A w \in Handles : load(St, cfg).conns[w] <= MaxConns
    /\ Apply(load(St, cfg), "load", cfg.kind)
    /\ loaded' = TRUE
    /\ UNCHANGED exited

\* the callback of timeout(delay, () => w.hide()) runs, once
FireTimer(t) ==
    /\ ~exited
    /\ t \in DOMAIN timers
    /\ t.left = 0
    /\ Apply(hide([St EXCEPT !.timers = @ (-) SetToBag({t})], t.win),
             "timer", t.win)
    /\ UNCHANGED <<exited, loaded>>

\* one unit of time passes for every pending timer
Tick ==
    /\ ~exited
    /\ \E t \in DOMAIN timers : t.left > 0
    /\ LET dec(t) == [t EXCEPT !.left = IF @ > 0 THEN @ - 1 ELSE 0]
           cnt(t) == IF t \in DOMAIN timers THEN timers[t] ELSE 0
           img == {dec(t) : t \in DOMAIN timers}
       IN timers' = [u \in img |->
                        IF u.left = 0
                        THEN cnt(u) + cnt([u EXCEPT !.left = 1])
                        ELSE cnt([u EXCEPT !.left = @ + 1])]
    /\ effects' = <<>>
    /\ ret' = Undefined
    /\ lastOp' = [op |-> "tick", arg |-> Undefined]
    /\ pre' = Pre(Undefined)
    /\ UNCHANGED <<windows, closeDelay, visible, destroyed, conns,
                   quitCalled, exited, loaded, calls>>

\* the main loop returns after quit()
Exit ==
    /\ quitCalled
    /\ ~exited
    /\ exited' = TRUE
    /\ effects' = <<>>
    /\ ret' = Undefined
    /\ lastOp' = [op |-> "exit", arg |-> Undefined]
    /\ pre' = Pre(Undefined)
    /\ UNCHANGED <<windows, closeDelay, visible, destroyed, conns, timers,
                   quitCalled, loaded, calls>>

WindowsInit ==
    /\ windows = {}
    /\ closeDelay = NoDelayTable
    /\ visible \in {v \in [Handles -> BOOLEAN] : v["W2"] /\ v["W3"] /\ ~v["W4"]}
    /\ destroyed = [w \in Handles |-> FALSE]
    /\ conns = [w \in Handles |-> 0]
    /\ timers = EmptyBag
    /\ quitCalled = FALSE
    /\ exited = FALSE
    /\ loaded = FALSE
    /\ effects = <<>>
    /\ ret = Undefined
    /\ lastOp = [op |-> "new", arg |-> Undefined]
    /\ pre = [size |-> 0, had |-> FALSE, vis |-> FALSE]

Next ==
    \/ \E cfg \in Configs : Load(cfg)
    \/ \E n \in Names : OpenWindowCall(n)
    \/ \E n \in Names : CloseWindowCall(n)
    \/ \E n \in Names : ToggleWindowCall(n)
    \/ \E n \in Names : ToggleWindowMethod(n)
    \/ \E w \in Handles \cup {NotAWindow} : AddWindowCall(w)
    \/ \E a \in Names \cup Handles : RemoveWindowCall(a)
    \/ \E n \in Names : ToggleTwiceCall(n)
    \/ \E w \in Handles : AddRemoveCall(w)
    \/ \E t \in DOMAIN timers : FireTimer(t)
    \/ Tick
    \/ QuitMethod
    \/ Exit

-----------------------------------------------------------------------------
(* RunJs *)

CallIds == 1..MaxCalls

Absent == "absent"

\* clientBusName and clientObjPath as the caller passes them
Callers ==
    { [bus |-> Absent, path |-> Absent], [bus |-> "busA", path |-> Absent],
      [bus |-> "busA", path |-> "/a"], [bus |-> "busB", path |-> "/b"] }

\* the script text by what it does.  Whether Function() compiles it is known
\* at the call; its body then runs step by step: it calls print, or it ends,
\* returning or throwing (a rejection of the promise it returns) a value
\* that converts to a string ("plain") or that makes `${value}` throw a
\* TypeError ("symbol": a Symbol, an object without toString)
Ends == {"value", "throw"}
Values == {"plain", "symbol"}

NoCall ==
    [phase |-> "none", bus |-> Absent, path |-> Absent, compiles |-> FALSE,
     printed |-> 0, outcome |-> "none", val |-> "plain", threw |-> FALSE,
     sent |-> <<>>]

\* const client = clientBusName && clientObjPath
client(k) == k.bus # Absent /\ k.path # Absent

\* dbus that takes the addresses from one place all calls share, which the
\* latest call has set
dbus_LatestCaller(k, method, what, thr) ==
    LET made == {c \in 1..MaxCalls : calls[c].phase # "none"}
        to == IF made = {} THEN k
              ELSE calls[CHOOSE c \in made : \A b \in made : b <= c]
    IN
    IF ~client(k) /\ thr THEN [k EXCEPT !.threw = TRUE]
    ELSE [k EXCEPT !.threw = FALSE,
                   !.sent = Append(@, [lane |-> "ipc", method |-> method,
                                       bus |-> to.bus, path |-> to.path,
                                       what |-> what])]

\* Gio.DBus.session.call(clientBusName!, clientObjPath!, clientBusName!,
\* method, (s)): with an address missing, the binding either throws
\* (thr) or issues the call with the missing address
dbus(k, method, what, thr) ==
    IF ~client(k) /\ thr THEN [k EXCEPT !.threw = TRUE]
    ELSE [k EXCEPT !.threw = FALSE,
                   !.sent = Append(@, [lane |-> "ipc", method |-> method,
                                       bus |-> k.bus, path |-> k.path,
                                       what |-> what])]

\* const response = dbus('Return')
response(k, what, thr) == dbus(k, "Return", what, thr)

\* the print of the script as the global print: a line of local output
printLocal_Global(k, what, thr) ==
    [k EXCEPT !.threw = FALSE,
              !.sent = Append(@, [lane |-> "stdout", method |-> "none",
                                  bus |-> Absent, path |-> Absent,
                                  what |-> what])]

\* const print = dbus('Print'): the print of RunJs and of the script
printLocal(k, what, thr) == dbus(k, "Print", what, thr)

logError(k, what) ==
    [k EXCEPT !.threw = FALSE,
              !.sent = Append(@, [lane |-> "logError", method |-> "none",
                                  bus |-> Absent, path |-> Absent,
                                  what |-> what])]

\* .catch((err) => { client ? response(`${err}`) : logError(err) }): the
\* template literal throws for an err that has no string conversion, and
\* the exception of the callback is an unhandled rejection
catchHandler(k, err, thr) ==
    IF client(k)
    THEN (IF err = "symbol" THEN [k EXCEPT !.threw = TRUE]
          ELSE response(k, "error", thr))
    ELSE logError(k, "error")

\* .then((out) => { client ? response(`${out}`) : print(`${out}`) })
thenHandler(k, thr) ==
    IF k.val = "symbol" THEN [k EXCEPT !.threw = TRUE]
    ELSE IF client(k) THEN response(k, "value", thr)
    ELSE printLocal(k, "value", thr)

\* fn()(print).then(...).catch(...): the promise of the script settles; an
\* exception of the then callback (a TypeError, an Error of the binding)
\* goes to the catch callback
settle(k, end, val, thr) ==
    IF end = "value"
    THEN LET r == thenHandler([k EXCEPT !.phase = "settled", !.val = val,
                                        !.outcome = "fulfilled"], thr)
         IN IF r.threw THEN catchHandler(r, "plain", thr) ELSE r
    ELSE catchHandler([k EXCEPT !.phase = "settled", !.val = val,
                                !.outcome = "rejected"], val, thr)

\* the body of the script calls print(x); an exception of the call ends the
\* body: the promise is rejected with the Error of the binding
scriptPrint(k, thr) ==
    LET r == printLocal([k EXCEPT !.printed = @ + 1], "print", thr) IN
    IF r.threw
    THEN catchHandler([r EXCEPT !.phase = "settled",
                                !.outcome = "rejected"], "plain", thr)
    ELSE r

\* RunJs whose catch of the compile error reports and does not return
RunJs_NoReturn(compiles, bus, path, thr) ==
    LET k == [NoCall EXCEPT !.bus = bus, !.path = path,
                            !.compiles = compiles]
    IN
    IF ~compiles
    THEN (IF client(k)
          THEN response([k EXCEPT !.phase = "running"], "compileError", thr)
          ELSE logError([k EXCEPT !.phase = "running"], "compileError"))
    ELSE [k EXCEPT !.phase = "running"]

\* RunJs up to its return: compile, report a compile error, or start the
\* script
RunJs(compiles, bus, path, thr) ==
    LET k == [NoCall EXCEPT !.bus = bus, !.path = path,
                            !.compiles = compiles]
    IN
    IF ~compiles
    THEN (IF client(k)
          THEN response([k EXCEPT !.phase = "compileError"],
                        "compileError", thr)
          ELSE logError([k EXCEPT !.phase = "compileError"],
                        "compileError"))
    ELSE [k EXCEPT !.phase = "running"]

RunJsCall(c, compiles, who, thr) ==
    /\ calls[c].phase = "none"
    /\ \A b \in CallIds : b < c => calls[b].phase # "none"
    /\ calls' = [calls EXCEPT ![c] = RunJs(compiles, who.bus, who.path, thr)]
    /\ UNCHANGED wvars

ScriptPrints(c, thr) ==
    /\ calls[c].phase = "running"
    /\ calls[c].printed < MaxPrints
    /\ calls' = [calls EXCEPT ![c] = scriptPrint(@, thr)]
    /\ UNCHANGED wvars

ScriptSettles(c, end, val, thr) ==
    /\ calls[c].phase = "running"
    /\ calls' = [calls EXCEPT ![c] = settle(@, end, val, thr)]
    /\ UNCHANGED wvars

RunJsInit == calls = [c \in CallIds |-> NoCall]

RunJsNext ==
    \/ \E c \in CallIds, compiles \in BOOLEAN, who \in Callers,
          thr \in BOOLEAN :
           RunJsCall(c, compiles, who, thr)
    \/ \E c \in CallIds, thr \in BOOLEAN : ScriptPrints(c, thr)
    \/ \E c \in CallIds, end \in Ends, val \in Values, thr \in BOOLEAN :
           ScriptSettles(c, end, val, thr)

-----------------------------------------------------------------------------
(* Specifications *)

Init == WindowsInit /\ RunJsInit

\* the window registry, its timers and the load
Spec == Init /\ [][Next]_vars

\* the RunJs calls of one run, the windows left alone
InitRunJs == Init /\ visible["W1"]

SpecRunJs == InitRunJs /\ [][RunJsNext]_vars

-----------------------------------------------------------------------------
(* Properties of the window registry and the delayed close *)

\* the timers of tm whose callback hides the window w
PendingOn(tm, w) ==
    BagCardinality([t \in {u \in DOMAIN tm : u.win = w} |-> tm[t]])

\* the pending timers whose callback hides a window named n
PendingFor(n) ==
    BagCardinality([t \in {u \in DOMAIN timers : NameOf(u.win) = n}
                       |-> timers[t]])

Called(op, arg) == lastOp = [op |-> op, arg |-> arg]

HasEffect(e) == \E i \in 1..Len(effects) : effects[i] = e

\* C1: after open(name) on a registered window no close timer is pending
\* for that window any more (the open has cancelled it), so that no timer
\* scheduled before the open can hide the window later.
C1_OpenCancelsPendingClose ==
    \A n \in Names :
        Called("openWindow", n) /\ MapHas(windows, n)
            => ~\E t \in DOMAIN timers : t.win = MapGet(windows, n)

\* C2: in every reachable state at most one close timer is pending per
\* window name.
C2_AtMostOnePendingClosePerName ==
    \A n \in Names : PendingFor(n) <= 1

C4_NoSecondEventWhilePending ==
    \A n \in Names :
        Called("closeWindow", n) /\ PendingFor(n) >= 2
            => ~HasEffect(Toggled(n, FALSE))

\* C5: the registry holds at most one window per name, and no add (by a
\* call or by the load) removes or replaces an entry of the registry.
C5_OneWindowPerName ==
    [][/\ \A e1, e2 \in windows' : e1.name = e2.name => e1 = e2
       /\ lastOp'.op \in {"addWindow", "load"} => windows \subseteq windows'
      ]_vars

\* a window was added under a name that is taken: the first one is still
\* registered
C5_Witness ==
    /\ Called("addWindow", "W2")
    /\ pre.had
    /\ windows = {[name |-> "bar", win |-> "W1"]}

\* C6: an add under a free non-empty name registers the window and does not
\* quit; an add under a name that is registered calls quit and leaves the
\* registry as it is; an add of a window without a name changes nothing and
\* does not quit.
C6_DuplicateAddQuits ==
    [][\A w \in Handles :
        lastOp' = [op |-> "addWindow", arg |-> w] =>
            IF NameOf(w) = ""
            THEN /\ windows' = windows
                 /\ quitCalled' = quitCalled
                 /\ effects' = <<LogError("has no name")>>
            ELSE IF MapHas(windows, NameOf(w))
            THEN /\ windows' = windows
                 /\ quitCalled'
                 /\ effects'[Len(effects')] = [e |-> "quit"]
            ELSE /\ windows' = windows \cup {[name |-> NameOf(w), win |-> w]}
                 /\ quitCalled' = quitCalled
                 /\ effects' = <<>>
      ]_vars

\* the second add of one name has quit, with the first window registered
C6_Witness ==
    /\ Called("addWindow", "W1")
    /\ pre.had
    /\ pre.size = 1
    /\ windows = {[name |-> "bar", win |-> "W2"]}
    /\ quitCalled
    /\ effects[Len(effects)] = [e |-> "quit"]

\* C7: toggle(name) applied twice in succession leaves the window, once
\* its pending closes have fired (each hides it), as visible as it was.
C7_ToggleTwiceRestores ==
    \A n \in Names :
        Called("toggleTwice", n) /\ MapHas(windows, n)
            => LET w == MapGet(windows, n) IN
               (visible[w] /\ PendingOn(timers, w) = 0) <=> pre.vis

\* C8: add(w) and then remove(w) leaves the registry as large as it was
\* before the add, for every window with a name.
C8_AddRemoveRestoresSize ==
    \A w \in Handles :
        Called("addRemove", w) /\ NameOf(w) # ""
            => Cardinality(windows) = pre.size

\* C8 as amended: the same, for a name that was free when the add ran.
C8_AddRemoveFreshName ==
    \A w \in Handles :
        Called("addRemove", w) /\ NameOf(w) # "" /\ ~pre.had
            => Cardinality(windows) = pre.size

\* a window added under a free name beside another window has been removed
\* again
C8_Witness ==
    /\ Called("addRemove", "W1")
    /\ ~pre.had
    /\ pre.size = 1
    /\ destroyed["W1"]
    /\ windows = {[name |-> "gtk-layer-shell", win |-> "W3"]}

\* C14: a load that fails with an error other than the entry file not
\* being found (the import fails, applying the descriptor fails, the
\* onConfigParsed hook throws) does not quit, registers no window and
\* still emits config-parsed.
C14_FailedLoadStillParsed ==
    (lastOp.op = "load" /\ lastOp.arg # "notFound"
        /\ HasEffect([e |-> "logError"]))
    => /\ ~HasEffect([e |-> "quit"])
       /\ Cardinality(windows) = pre.size
       /\ HasEffect([e |-> "config-parsed"])

\* how often the last handler emitted config-parsed
ParsedCount ==
    Len(SelectSeq(effects, LAMBDA x : x = [e |-> "config-parsed"]))

\* C15: a load of an entry module without a default export emits
\* config-parsed exactly once and registers no window; a load that succeeds
\* emits config-parsed exactly once, as the last thing it does, after every
\* addWindow of the declared windows has run, so that every declared window
\* with a name has its name registered by then.
C15_ConfigParsedOnce ==
    /\ Called("load", "noDefault")
        => ParsedCount = 1 /\ Cardinality(windows) = pre.size
    /\ (Called("load", "ok") /\ ~HasEffect([e |-> "logError"]))
        => /\ ParsedCount = 1
           /\ effects[Len(effects)] = [e |-> "config-parsed"]
    /\ ~loaded
        => \A cfg \in Configs :
            (cfg.kind = "ok" /\ ~cfg.styleThrows /\ ~cfg.hookThrows)
            => \A i \in 1..Len(cfg.windowList) :
                NameOf(cfg.windowList[i]) # ""
                => MapHas(load(St, cfg).windows, NameOf(cfg.windowList[i]))

\* a load of a descriptor with two windows has succeeded: both are
\* registered and config-parsed is all the load published
C15_Witness ==
    /\ Called("load", "ok")
    /\ effects = <<[e |-> "config-parsed"]>>
    /\ windows = {[name |-> "bar", win |-> "W1"],
                  [name |-> "gtk-layer-shell", win |-> "W3"]}

\* C16: ToggleWindow(name) on a registered window returns the new
\* visibility of the window as a string: "true" when the window was hidden
\* before the call, "false" when it was visible, with and without a close
\* delay for the name.
C16_ToggleWindowReturnsNewVisibility ==
    \A n \in Names :
        Called("ToggleWindow", n) /\ pre.had
            => ret = IF pre.vis THEN "false" ELSE "true"

\* C17: once quit has been called (by Quit, by an add under a taken name)
\* the pending close timers are released and the registered windows are
\* destroyed before the exit: at the exit no timer is pending and no
\* registered handle is alive, no close timer fires after the quit, and no
\* add registers a window after the quit.
C17_ShutdownReleasesAll ==
    /\ exited => /\ timers = EmptyBag
                 /\ \A e \in windows : destroyed[e.win]
    /\ \A w \in Handles : Called("timer", w) => ~quitCalled
    /\ \A w \in Handles :
        (Called("addWindow", w) /\ quitCalled /\ ~HasEffect([e |-> "quit"]))
            => Cardinality(windows) = pre.size

\* C18: in every reachable state, also before a descriptor is loaded and
\* after a load that gave none, close(name) on a registered visible window
\* whose name has no delay configured (or the delay 0) hides the window in
\* that step, schedules no timer and does not throw.
C18_ImmediateCloseNeverThrows ==
    \A n \in Names :
        (Called("closeWindow", n) /\ pre.vis /\ MapHas(windows, n)
            /\ (closeDelay.defined => closeDelay.of[n] = 0))
        => /\ ret # "throw"
           /\ ~visible[MapGet(windows, n)]
           /\ HasEffect([e |-> "hide", win |-> MapGet(windows, n)])
           /\ PendingFor(n) = 0

\* C20: a close timer scheduled for a window that remove(name) has since
\* destroyed does nothing to the destroyed handle when it fires: it calls
\* no hide on it and publishes no window-toggled, also when another window
\* has been added under the name in the meantime.
C20_NoTimerActsOnDestroyed ==
    \A w \in Handles :
        (Called("timer", w) /\ destroyed[w]) => effects = <<>>

-----------------------------------------------------------------------------
(* Properties of RunJs *)

\* the final deliveries of a call: a result, an error, a compile error
Finals(k) ==
    SelectSeq(k.sent,
              LAMBDA m : m.what \in {"value", "error", "compileError"})

\* C9: the result of a script that completed successfully goes, with both
\* caller addresses given, as the one Return reply to that caller, and, with
\* an address missing, to local output with no IPC call issued by the call.
C9_ReplyRouting ==
    \A c \in CallIds :
        LET k == calls[c] IN
        (k.phase = "settled" /\ k.outcome = "fulfilled" /\ k.val = "plain")
        => IF client(k)
           THEN Finals(k) = <<[lane |-> "ipc", method |-> "Return",
                               bus |-> k.bus, path |-> k.path,
                               what |-> "value"]>>
           ELSE /\ \E i \in 1..Len(k.sent) :
                      k.sent[i].lane = "stdout" /\ k.sent[i].what = "value"
                /\ \A i \in 1..Len(k.sent) : k.sent[i].lane # "ipc"

\* C10: every call has at most one final delivery (compile error report,
\* runtime error report or result), none before its script has settled, and
\* exactly one once it has failed to compile or its script has settled.
C10_ExactlyOneFinalDelivery ==
    \A c \in CallIds :
        LET k == calls[c] IN
        /\ Len(Finals(k)) <= 1
        /\ k.phase \in {"none", "running"} => Len(Finals(k)) = 0
        /\ k.phase \in {"settled", "compileError"} => Len(Finals(k)) = 1

\* what dbus(method) sends for the call k
Ipc(k, method, what) ==
    [lane |-> "ipc", method |-> method, bus |-> k.bus, path |-> k.path,
     what |-> what]

\* C11: a call whose script text does not compile has, from the step of the
\* call on, sent exactly its one report of the compile error (a Return to
\* the caller when both addresses are given, else an entry of the local
\* error log), and its script never runs: it prints nothing, it never
\* settles and nothing is sent for it later.
C11_CompileErrorReportedAtOnce ==
    \A c \in CallIds :
        LET k == calls[c] IN
        (k.phase # "none" /\ ~k.compiles)
        => /\ k.phase = "compileError"
           /\ k.printed = 0
           /\ k.outcome = "none"
           /\ k.sent = IF client(k)
                       THEN <<Ipc(k, "Return", "compileError")>>
                       ELSE <<[lane |-> "logError", method |-> "none",
                               bus |-> Absent, path |-> Absent,
                               what |-> "compileError"]>>

\* a text that did not compile was reported to its caller, and the other
\* call has run to its end since
C11_Witness ==
    /\ calls[1].phase = "compileError"
    /\ client(calls[1])
    /\ calls[1].sent = <<Ipc(calls[1], "Return", "compileError")>>
    /\ calls[2].phase = "settled"

\* what the receiver of a message can tell it by: the lane it came on and
\* the method called, the argument being one string (s) in every case
Shape(m) == [lane |-> m.lane, method |-> m.method]

\* C12: the reply to a caller whose script failed differs, in lane or in
\* shape, from the reply to a caller whose script completed successfully.
C12_ErrorReplyDistinguishable ==
    \A c1, c2 \in CallIds :
        LET k1 == calls[c1]
            k2 == calls[c2]
        IN (/\ client(k1) /\ k1.outcome = "rejected" /\ Len(Finals(k1)) = 1
            /\ Finals(k1)[1].what = "error"
            /\ client(k2) /\ k2.outcome = "fulfilled" /\ Len(Finals(k2)) = 1
            /\ Finals(k2)[1].what = "value")
           => Shape(Finals(k1)[1]) # Shape(Finals(k2)[1])

\* the messages of a call that are not its final delivery
Notes(k) == SelectSeq(k.sent, LAMBDA m : m.what = "print")

C19_ReplyIsolation ==
    \A c \in CallIds :
        \A i \in 1..Len(calls[c].sent) :
            LET m == calls[c].sent[i] IN
            m.lane = "ipc" => m.bus = calls[c].bus /\ m.path = calls[c].path

\* two calls of different callers were pending at once; the first has
\* printed, the second, made later, has completed before it
C19_Witness ==
    /\ client(calls[1]) /\ client(calls[2])
    /\ calls[1].bus # calls[2].bus
    /\ calls[1].phase = "running"
    /\ calls[1].sent = <<Ipc(calls[1], "Print", "print")>>
    /\ calls[2].sent = <<Ipc(calls[2], "Print", "print"),
                          Ipc(calls[2], "Return", "value")>>

====
